---- MODULE Spec2Model ----
(***************************************************************************)
(* Model of articles/nodejs/breaking-backpressure/main.ts: a Readable      *)
(* source piped through ConcurrentTransform (a Transform whose workers     *)
(* are capped by Semaphoreish) into a slow Writable sink.                  *)
(*                                                                         *)
(* All handlers run on one event-loop thread, so each action below is one  *)
(* synchronous run of a handler, from the event that starts it to the      *)
(* next await or return.  Items are identified by their id (main.ts:16).   *)
(***************************************************************************)
EXTENDS Integers, Sequences, FiniteSets, TLC

\* Largest number of items the source may yield (main.ts:128 uses 150).
MaxItems == 5
\* Semaphoreish size = transform.readableHighWaterMark (main.ts:93); the
\* object-mode default is 16, scaled down so that full gates are reached.
Capacity == 2
\* writable.writableHighWaterMark of the sink (main.ts:136-137), object-mode
\* default 16, scaled down so that the sink's buffer fills.
SinkHWM == 2

Items == 0 .. (MaxItems - 1)

VARIABLES
    running,         \* Semaphoreish._running                     (main.ts:47)
    resolvers,       \* Semaphoreish._resolvers, oldest first     (main.ts:49)
    woken,           \* waiters whose resolver was called and whose
                     \* continuation is queued as a microtask     (main.ts:81)
    pc,              \* per item: position of its _transform call
    srcNext,         \* id of the next item the source hands over (main.ts:15)
    ending,          \* source exhausted, transform.end() called  (main.ts:19)
    onFinal,         \* ConcurrentTransform.onFinal is defined    (main.ts:87)
    finalCalls,      \* number of invocations of onFinal          (main.ts:110)
    strictFinal,     \* platform rejects a repeated _final callback
    rEnded,          \* readable side of the transform got EOF
    rbuf,            \* transform's readable buffer (pushed, no 'data' yet)
    flowing,         \* transform's readable side is in flowing mode
    resumeScheduled, \* resume() was called, flow() is pending
    emitted,         \* items for which 'data' was emitted, in order
    sinkWriting,     \* items whose sink write() is outstanding   (main.ts:143)
    wbuf,            \* sink's buffer of chunks awaiting write()
    needDrain,       \* sink's write() returned false
    sinkEnding,      \* sink.end() was called
    received,        \* items handed to the sink's write(), in order
    acked,           \* number of sink writes acknowledged        (main.ts:146)
    outcome,         \* "running", "success", "error" or "crashed"
    suspendLog,      \* gate harness: acquirers in the order they suspended
    grantLog,        \* gate harness: suspended acquirers in grant order
    releases         \* gate harness: number of release() calls

vars == << running, resolvers, woken, pc, srcNext, ending, onFinal, finalCalls,
           strictFinal, rEnded, rbuf, flowing, resumeScheduled, emitted,
           sinkWriting, wbuf, needDrain, sinkEnding, received, acked, outcome,
           suspendLog, grantLog, releases >>

gateLogs == << suspendLog, grantLog, releases >>

\* The part of the state the handlers' helpers read and write, as a record.
State ==
    [ running |-> running, resolvers |-> resolvers, woken |-> woken, pc |-> pc,
      onFinal |-> onFinal, finalCalls |-> finalCalls, rEnded |-> rEnded,
      rbuf |-> rbuf, flowing |-> flowing, resumeScheduled |-> resumeScheduled,
      emitted |-> emitted, sinkWriting |-> sinkWriting, wbuf |-> wbuf,
      needDrain |-> needDrain, received |-> received, acked |-> acked,
      outcome |-> outcome ]

Commit(st) ==
    /\ running' = st.running
    /\ resolvers' = st.resolvers
    /\ woken' = st.woken
    /\ pc' = st.pc
    /\ onFinal' = st.onFinal
    /\ finalCalls' = st.finalCalls
    /\ rEnded' = st.rEnded
    /\ rbuf' = st.rbuf
    /\ flowing' = st.flowing
    /\ resumeScheduled' = st.resumeScheduled
    /\ emitted' = st.emitted
    /\ sinkWriting' = st.sinkWriting
    /\ wbuf' = st.wbuf
    /\ needDrain' = st.needDrain
    /\ received' = st.received
    /\ acked' = st.acked
    /\ outcome' = st.outcome

----------------------------------------------------------------------------
(* Semaphoreish                                                            *)

\* Mutation of Acquire: the capacity test is off by one.
AcquireOffByOne(st, i) ==
    IF st.running > Capacity
    THEN [st EXCEPT !.resolvers = Append(@, i)]
    ELSE [st EXCEPT !.running = @ + 1]

\* acquire() up to its await: suspend behind the queue when the gate is
\* full, otherwise take a slot at once.
Acquire(st, i) ==
    IF st.running >= Capacity
    THEN [st EXCEPT !.resolvers = Append(@, i)]
    ELSE [st EXCEPT !.running = @ + 1]

\* acquire() after its await: the oldest woken waiter resumes and takes a
\* slot without looking at running again.
AcquireResume(st) ==
    [st EXCEPT !.woken = Tail(@), !.running = @ + 1]

\* Mutation of Release: the slot is given back but no waiter is woken.
ReleaseNoWake(st) == [st EXCEPT !.running = @ - 1]

\* Mutation of Release: the newest resolver is called instead of the oldest.
ReleaseNewest(st) ==
    IF st.resolvers # << >>
    THEN [st EXCEPT !.running = @ - 1,
                    !.resolvers = SubSeq(@, 1, Len(@) - 1),
                    !.woken = Append(@, st.resolvers[Len(st.resolvers)])]
    ELSE [st EXCEPT !.running = @ - 1]

\* release(): give the slot back and call the oldest resolver, which queues
\* that waiter's continuation.
Release(st) ==
    IF st.resolvers # << >>
    THEN [st EXCEPT !.running = @ - 1,
                    !.resolvers = Tail(@),
                    !.woken = Append(@, Head(st.resolvers))]
    ELSE [st EXCEPT !.running = @ - 1]

----------------------------------------------------------------------------
(* ConcurrentTransform                                                     *)

\* One invocation of the callback trapped by _final.  The first one lets
\* the stream finish its writable side and end its readable side; a second
\* one is a repeated callback, which the platform either rejects by
\* destroying the stream with an error (strictFinal) or tolerates.
InvokeOnFinal(st) ==
    IF st.finalCalls = 0
    THEN [st EXCEPT !.finalCalls = 1, !.rEnded = TRUE]
    ELSE [st EXCEPT !.finalCalls = @ + 1,
                    !.outcome = IF strictFinal THEN "error" ELSE @]

\* Mutation of CheckDone: the test of running is missing.
CheckDoneNoRunning(st) ==
    IF st.onFinal
    THEN InvokeOnFinal(st)
    ELSE st

\* _checkDone()
CheckDone(st) ==
    IF st.running = 0 /\ st.onFinal
    THEN InvokeOnFinal(st)
    ELSE st

\* Mutation of DataHandler: the listener releases twice for one chunk.
DataHandlerDoubleRelease(st) == CheckDone(Release(Release(st)))

\* Mutation of DataHandler: the listener forgets to release the slot.
DataHandlerNoRelease(st) == CheckDone(st)

\* the 'data' listener of the constructor
DataHandler(st) == CheckDone(Release(st))

----------------------------------------------------------------------------
(* Sink and pipeline plumbing                                              *)

\* The sink's write function is entered for a chunk.
StartWrite(st, i) ==
    [st EXCEPT !.sinkWriting = @ \cup {i}, !.received = Append(@, i)]

\* Mutation of SinkWrite: a chunk arriving during a write is dropped.
SinkWriteDrop(st, i) ==
    IF st.outcome # "running" THEN st
    ELSE IF st.sinkWriting = {} /\ st.wbuf = << >>
         THEN StartWrite(st, i)
         ELSE st

\* Mutation of SinkWrite: every chunk goes to the write function at once.
SinkWriteUnserialized(st, i) ==
    IF st.outcome # "running" THEN st
    ELSE StartWrite(st, i)

\* writable.write(chunk) as called by the pipe: the chunk goes to the write
\* function when no write is outstanding and is buffered otherwise.
SinkWrite(st, i) ==
    IF st.outcome # "running" THEN st
    ELSE IF st.sinkWriting = {} /\ st.wbuf = << >>
         THEN StartWrite(st, i)
         ELSE [st EXCEPT !.wbuf = Append(@, i)]

SinkLength(st) == Cardinality(st.sinkWriting) + Len(st.wbuf)

\* The pipe's own 'data' listener: forward the chunk and pause the
\* transform when the sink reports a full buffer.
PipeOnData(st, i) ==
    LET w == SinkWrite(st, i) IN
    IF w.outcome = "running" /\ SinkLength(w) >= SinkHWM
    THEN [w EXCEPT !.needDrain = TRUE, !.flowing = FALSE]
    ELSE w

\* emit('data', chunk): the listeners run in registration order, the
\* constructor's first, the pipe's second.
EmitData(st, i) ==
    PipeOnData(DataHandler([st EXCEPT !.emitted = Append(@, i),
                                      !.pc[i] = "out"]), i)

\* Mutation of Push: the slot is given back as soon as the worker has
\* completed, also when the chunk is only buffered.
PushReleasesSlot(st, i) ==
    IF st.outcome # "running" THEN st
    ELSE IF st.flowing /\ st.rbuf = << >>
         THEN EmitData(st, i)
         ELSE Release([st EXCEPT !.rbuf = Append(@, i), !.pc[i] = "buf"])

\* Mutation of Push: a chunk is held in the buffer while an item accepted
\* earlier has not been pushed yet.
PushBehindEarlier(st, i) ==
    IF st.outcome # "running" THEN st
    ELSE IF st.flowing /\ st.rbuf = << >>
            /\ \A j \in Items : j < i => st.pc[j] \in {"buf", "out"}
         THEN EmitData(st, i)
         ELSE [st EXCEPT !.rbuf = Append(@, i), !.pc[i] = "buf"]

\* this.push(chunk): emitted at once when flowing with an empty buffer,
\* buffered otherwise; ignored on a destroyed stream.
Push(st, i) ==
    IF st.outcome # "running" THEN st
    ELSE IF st.flowing /\ st.rbuf = << >>
         THEN EmitData(st, i)
         ELSE [st EXCEPT !.rbuf = Append(@, i), !.pc[i] = "buf"]

\* flow(): read and emit buffered chunks while the stream stays flowing.
RECURSIVE FlowLoop(_)
FlowLoop(st) ==
    IF st.flowing /\ st.rbuf # << >> /\ st.outcome = "running"
    THEN FlowLoop(EmitData([st EXCEPT !.rbuf = Tail(@)], Head(st.rbuf)))
    ELSE st

----------------------------------------------------------------------------
Init ==
    /\ running = 0
    /\ resolvers = << >>
    /\ woken = << >>
    /\ pc = [i \in Items |-> "src"]
    /\ srcNext = 0
    /\ ending = FALSE
    /\ onFinal = FALSE
    /\ finalCalls = 0
    /\ strictFinal \in BOOLEAN
    /\ rEnded = FALSE
    /\ rbuf = << >>
    /\ flowing = TRUE
    /\ resumeScheduled = FALSE
    /\ emitted = << >>
    /\ sinkWriting = {}
    /\ wbuf = << >>
    /\ needDrain = FALSE
    /\ sinkEnding = FALSE
    /\ received = << >>
    /\ acked = 0
    /\ outcome = "running"
    /\ suspendLog = << >>
    /\ grantLog = << >>
    /\ releases = 0

\* Mutation of WritableIdle: the next chunk is handed over while the
\* previous one is still suspended in acquire().
WritableIdleIgnoresGate == \A j \in Items : pc[j] # "acq"

\* Mutation of WritableIdle: the next chunk is handed over without waiting
\* for the previous callback(), as if callback() preceded "await acquire()".
WritableIdleAlways == TRUE

\* The transform's writable side hands over one chunk at a time: the next
\* _transform call waits for the callback of the previous one.  (The stream
\* would hold callback() back while its readable buffer is at the high
\* water mark; buffered items hold gate slots and the caller holds one too,
\* so that buffer is below Capacity whenever callback() is called.)
WritableIdle == \A j \in Items : pc[j] \notin {"gate", "acq"}

\* _transform(chunk) up to its first await: the synchronous part of
\* acquire().
TransformReady(i) ==
    /\ outcome = "running"
    /\ ~ending
    /\ i = srcNext
    /\ WritableIdle

Transform(i) ==
    /\ TransformReady(i)
    /\ LET a == Acquire(State, i) IN
       Commit([a EXCEPT !.pc[i] = IF a.running = running THEN "gate" ELSE "acq"])
    /\ srcNext' = srcNext + 1
    /\ UNCHANGED << ending, strictFinal, sinkEnding, gateLogs >>

\* The woken waiter's continuation runs: acquire() increments and returns.
ResumeReady(i) ==
    /\ woken # << >>
    /\ i = Head(woken)
    /\ pc[i] = "gate"

Resume(i) ==
    /\ ResumeReady(i)
    /\ Commit([AcquireResume(State) EXCEPT !.pc[i] = "acq"])
    /\ UNCHANGED << srcNext, ending, strictFinal, sinkEnding, gateLogs >>

\* _transform after "await acquire()": callback(), then work(chunk.id) is
\* started and awaited.
Callback(i) ==
    /\ pc[i] = "acq"
    /\ pc' = [pc EXCEPT ![i] = "work"]
    /\ UNCHANGED << running, resolvers, woken, srcNext, ending, onFinal,
                    finalCalls, strictFinal, rEnded, rbuf, flowing,
                    resumeScheduled, emitted, sinkWriting, wbuf, needDrain,
                    sinkEnding, received, acked, outcome, gateLogs >>

\* _transform after "await work()": push the enriched item, then
\* _checkDone().
WorkDone(i) ==
    /\ pc[i] = "work"
    /\ Commit(CheckDone(Push(State, i)))
    /\ UNCHANGED << srcNext, ending, strictFinal, sinkEnding, gateLogs >>

\* The source is exhausted and the pipe calls transform.end().
SourceEndReady == outcome = "running" /\ ~ending

SourceEnd ==
    /\ SourceEndReady
    /\ ending' = TRUE
    /\ UNCHANGED << running, resolvers, woken, pc, srcNext, onFinal,
                    finalCalls, strictFinal, rEnded, rbuf, flowing,
                    resumeScheduled, emitted, sinkWriting, wbuf, needDrain,
                    sinkEnding, received, acked, outcome, gateLogs >>

\* Mutation of Final: the callback is trapped but _checkDone() is not called.
FinalNoCheck ==
    /\ outcome = "running"
    /\ ending
    /\ ~onFinal
    /\ WritableIdle
    /\ Commit([State EXCEPT !.onFinal = TRUE])
    /\ UNCHANGED << srcNext, ending, strictFinal, sinkEnding, gateLogs >>

\* _final(callback): called once the writable side has ended and every
\* chunk's callback was called.
FinalReady ==
    /\ outcome = "running"
    /\ ending
    /\ ~onFinal
    /\ WritableIdle

Final ==
    /\ FinalReady
    /\ Commit(CheckDone([State EXCEPT !.onFinal = TRUE]))
    /\ UNCHANGED << srcNext, ending, strictFinal, sinkEnding, gateLogs >>

\* The sink drained and the pipe resumed the transform: flow() runs.
FlowReady == outcome = "running" /\ resumeScheduled

Flow ==
    /\ FlowReady
    /\ Commit(FlowLoop([State EXCEPT !.resumeScheduled = FALSE]))
    /\ UNCHANGED << srcNext, ending, strictFinal, sinkEnding, gateLogs >>

\* The sink's timer fires for the outstanding write: callback().  The next
\* buffered chunk is written; an emptied buffer that was full emits
\* 'drain', on which the pipe resumes the transform.
AfterAck(st) ==
    LET n == IF st.wbuf # << >>
             THEN StartWrite([st EXCEPT !.wbuf = Tail(@)], Head(st.wbuf))
             ELSE st
    IN IF SinkLength(n) = 0 /\ n.needDrain /\ ~sinkEnding
       THEN [n EXCEPT !.needDrain = FALSE, !.flowing = TRUE,
                      !.resumeScheduled = TRUE]
       ELSE n

SinkAckReady(i) == outcome = "running" /\ i \in sinkWriting

SinkAck(i) ==
    /\ SinkAckReady(i)
    /\ Commit(AfterAck([State EXCEPT !.sinkWriting = @ \ {i},
                                     !.acked = @ + 1]))
    /\ UNCHANGED << srcNext, ending, strictFinal, sinkEnding, gateLogs >>

\* The transform's readable side emits 'end' and the pipe calls sink.end().
TransformEndReady ==
    /\ outcome = "running"
    /\ rEnded
    /\ rbuf = << >>
    /\ ~sinkEnding

TransformEnd ==
    /\ TransformEndReady
    /\ sinkEnding' = TRUE
    /\ UNCHANGED << running, resolvers, woken, pc, srcNext, ending, onFinal,
                    finalCalls, strictFinal, rEnded, rbuf, flowing,
                    resumeScheduled, emitted, sinkWriting, wbuf, needDrain,
                    received, acked, outcome, gateLogs >>

\* Mutation of PipelineDone: the promise resolves without waiting for the
\* sink's outstanding and buffered writes.
PipelineDoneEarly ==
    /\ outcome = "running"
    /\ sinkEnding
    /\ outcome' = "success"
    /\ UNCHANGED << running, resolvers, woken, pc, srcNext, ending, onFinal,
                    finalCalls, strictFinal, rEnded, rbuf, flowing,
                    resumeScheduled, emitted, sinkWriting, wbuf, needDrain,
                    sinkEnding, received, acked, gateLogs >>

\* The sink finishes and the promise of pipeline() resolves.
PipelineDoneReady ==
    /\ outcome = "running"
    /\ sinkEnding
    /\ sinkWriting = {}
    /\ wbuf = << >>

PipelineDone ==
    /\ PipelineDoneReady
    /\ outcome' = "success"
    /\ UNCHANGED << running, resolvers, woken, pc, srcNext, ending, onFinal,
                    finalCalls, strictFinal, rEnded, rbuf, flowing,
                    resumeScheduled, emitted, sinkWriting, wbuf, needDrain,
                    sinkEnding, received, acked, gateLogs >>

Next ==
    \/ \E i \in Items : Transform(i)
    \/ \E i \in Items : Resume(i)
    \/ \E i \in Items : Callback(i)
    \/ \E i \in Items : WorkDone(i)
    \/ SourceEnd
    \/ Final
    \/ Flow
    \/ \E i \in Items : SinkAck(i)
    \/ TransformEnd
    \/ PipelineDone

Spec == Init /\ [][Next]_vars

\* Some handler of the run is ready: the conditions under which the
\* actions of Next can be taken.
HandlerReady ==
    \/ \E i \in Items : TransformReady(i)
    \/ \E i \in Items : ResumeReady(i)
    \/ \E i \in Items : pc[i] \in {"acq", "work"}
    \/ SourceEndReady
    \/ FinalReady
    \/ FlowReady
    \/ \E i \in Items : SinkAckReady(i)
    \/ TransformEndReady
    \/ PipelineDoneReady

\* The event loop runs every handler that is ready: each timer fires, each
\* queued continuation runs, the finite source ends.
Fairness ==
    /\ \A i \in Items : WF_vars(Transform(i))
    /\ \A i \in Items : WF_vars(Resume(i))
    /\ \A i \in Items : WF_vars(Callback(i))
    /\ \A i \in Items : WF_vars(WorkDone(i))
    /\ WF_vars(SourceEnd)
    /\ WF_vars(Final)
    /\ WF_vars(Flow)
    /\ \A i \in Items : WF_vars(SinkAck(i))
    /\ WF_vars(TransformEnd)
    /\ WF_vars(PipelineDone)

LiveSpec == Init /\ [][Next]_vars /\ Fairness

----------------------------------------------------------------------------
(* The run with a worker that may fail.  work() of main.ts never rejects;  *)
(* here the awaited worker may reject or throw instead of settling.        *)

\* "await work(chunk.id)" throws inside _transform: the async function
\* rejects its own promise; push and _checkDone are not reached and the
\* stream is told nothing.
WorkReject(i) ==
    /\ pc[i] = "work"
    /\ pc' = [pc EXCEPT ![i] = "failed"]
    /\ UNCHANGED << running, resolvers, woken, srcNext, ending, onFinal,
                    finalCalls, strictFinal, rEnded, rbuf, flowing,
                    resumeScheduled, emitted, sinkWriting, wbuf, needDrain,
                    sinkEnding, received, acked, outcome, gateLogs >>

\* Nobody handles the promise _transform returned: the host may end the
\* process on the unhandled rejection, once the queued continuations ran.
HostAbort ==
    /\ outcome = "running"
    /\ \E i \in Items : pc[i] = "failed"
    /\ outcome' = "crashed"
    /\ UNCHANGED << running, resolvers, woken, pc, srcNext, ending, onFinal,
                    finalCalls, strictFinal, rEnded, rbuf, flowing,
                    resumeScheduled, emitted, sinkWriting, wbuf, needDrain,
                    sinkEnding, received, acked, gateLogs >>

NextFail ==
    \/ Next
    \/ \E i \in Items : WorkReject(i)
    \/ HostAbort

SpecFail == Init /\ [][NextFail]_vars

----------------------------------------------------------------------------
(* The run with workers that may hang: the promise work() returned is      *)
(* never settled, so the continuation of _transform never runs.            *)

\* The worker of item i will never settle.
Hang(i) ==
    /\ outcome = "running"
    /\ pc[i] = "work"
    /\ pc' = [pc EXCEPT ![i] = "hung"]
    /\ UNCHANGED << running, resolvers, woken, srcNext, ending, onFinal,
                    finalCalls, strictFinal, rEnded, rbuf, flowing,
                    resumeScheduled, emitted, sinkWriting, wbuf, needDrain,
                    sinkEnding, received, acked, outcome, gateLogs >>

NextHung ==
    \/ Next
    \/ \E i \in Items : Hang(i)

SpecHung == Init /\ [][NextHung]_vars

----------------------------------------------------------------------------
(* The gate taken on its own: independent callers, each of which calls     *)
(* acquire() and later release(), in any interleaving.  pc[p] is "src"     *)
(* before the call, "gate" while suspended in acquire(), "acq" while       *)
(* holding a slot and "out" after release().                               *)

InitGate == Init /\ strictFinal = FALSE

GateAcquire(p) ==
    /\ pc[p] = "src"
    /\ LET a == Acquire(State, p)
           suspended == a.running = running
       IN /\ Commit([a EXCEPT !.pc[p] = IF suspended THEN "gate" ELSE "acq"])
          /\ suspendLog' = IF suspended THEN Append(suspendLog, p)
                                        ELSE suspendLog
    /\ UNCHANGED << srcNext, ending, strictFinal, sinkEnding, grantLog,
                    releases >>

GateResume(p) ==
    /\ woken # << >>
    /\ p = Head(woken)
    /\ Commit([AcquireResume(State) EXCEPT !.pc[p] = "acq"])
    /\ grantLog' = Append(grantLog, p)
    /\ UNCHANGED << srcNext, ending, strictFinal, sinkEnding, suspendLog,
                    releases >>

GateRelease(p) ==
    /\ pc[p] = "acq"
    /\ Commit([Release(State) EXCEPT !.pc[p] = "out"])
    /\ releases' = releases + 1
    /\ UNCHANGED << srcNext, ending, strictFinal, sinkEnding, suspendLog,
                    grantLog >>

NextGate ==
    \/ \E p \in Items : GateAcquire(p)
    \/ \E p \in Items : GateResume(p)
    \/ \E p \in Items : GateRelease(p)

SpecGate == InitGate /\ [][NextGate]_vars

----------------------------------------------------------------------------
(* Properties of the gate                                                  *)

\* C5: a caller that finds the gate full (running >= capacity) is not granted
\* at once; it is granted only through a release(), and suspended callers
\* are woken and granted in the order in which they called acquire().
FifoFairness ==
    /\ [](grantLog \o woken \o resolvers = suspendLog)
    /\ [](Len(grantLog) + Len(woken) <= releases)
    /\ [][\A p \in Items :
            (pc[p] = "src" /\ pc'[p] = "acq") => running < Capacity]_vars

\* Two callers were suspended at a full gate and both have been granted.
TwoWaitersGranted == Len(grantLog) >= 2

\* C6 (as stated): for the gate on its own, running never exceeds capacity
\* under any interleaving of acquire(), release() and the deferred
\* resumption of a woken waiter.
GateCapacityInvariant == running <= Capacity

----------------------------------------------------------------------------
(* Properties of the pipeline run                                          *)

Range(s) == { s[k] : k \in 1 .. Len(s) }
NoDup(s) == \A k, l \in 1 .. Len(s) : s[k] = s[l] => k = l
Accepted == 0 .. (srcNext - 1)

\* C1: in every reachable state of a pipeline run the gate's running count
\* (slots acquired by _transform and not yet released by a 'data' emission)
\* is at most the configured capacity.
CapacityInvariant == running <= Capacity

\* A full gate with the next item suspended behind it.
FullGateWithWaiter == running = Capacity /\ resolvers # << >>

\* C2 (as stated): the callback trapped by _final is invoked exactly once per
\* run: never twice or more, and once in a run that completed.
CompletionExactlyOnce ==
    /\ finalCalls <= 1
    /\ (outcome = "success" => finalCalls = 1)

\* C3: the completion callback has fired only if _final was called, and then
\* no accepted item is outstanding: running is 0 and every item handed to
\* _transform has been emitted downstream.
CompletionNotEarly ==
    finalCalls >= 1 =>
        /\ onFinal
        /\ ending
        /\ running = 0
        /\ resolvers = << >> /\ woken = << >>
        /\ Len(emitted) = srcNext
        /\ \A i \in Accepted : pc[i] = "out"

\* The callback fired in a run in which workers were outstanding when
\* _final was called.
CompletionAfterDrain == finalCalls >= 1 /\ srcNext >= 2 /\ Len(emitted) = srcNext

\* C4: in a run that completed successfully every accepted item was emitted
\* exactly once and received by the sink exactly once.
Conservation ==
    outcome = "success" =>
        /\ Range(emitted) = Accepted /\ NoDup(emitted)
        /\ Range(received) = Accepted /\ NoDup(received)
        /\ Len(emitted) = srcNext /\ Len(received) = srcNext
        /\ acked = srcNext

\* A successful run over a source of MaxItems items.
SuccessfulFullRun == outcome = "success" /\ srcNext = MaxItems

\* C7 (as stated): with every worker settling and the sink acknowledging
\* every write, the run eventually completes: no acquirer stays suspended,
\* the completion callback has fired and every accepted item was delivered
\* to the sink and acknowledged.
Termination ==
    <>( /\ outcome = "success"
        /\ resolvers = << >> /\ woken = << >>
        /\ finalCalls >= 1
        /\ Len(received) = srcNext
        /\ acked = srcNext )

\* C8: the promise of pipeline() resolves only after the source is
\* exhausted, the transform's completion callback has fired and the sink
\* has acknowledged its last write.
ResolvesLast ==
    outcome = "success" =>
        /\ ending
        /\ finalCalls >= 1
        /\ rEnded /\ rbuf = << >>
        /\ sinkWriting = {} /\ wbuf = << >>
        /\ acked = Len(emitted)

\* The promise resolved in a run in which the sink had buffered writes.
ResolvedAfterSinkDrain == outcome = "success" /\ acked >= 3 /\ ~needDrain

\* C9 (as stated): once the worker of an item has rejected or thrown, the
\* transform stage admits no further item.
FailureStopsAdmission ==
    [][(\E i \in Items : pc[i] = "failed") => srcNext' = srcNext]_vars

\* C10: the sink receives the items in the order the transform emitted
\* them: what it was handed so far, followed by what waits in its buffer, is
\* the emitted sequence; and it has at most one write outstanding.
SinkInEmissionOrder ==
    /\ received \o wbuf = emitted
    /\ Cardinality(sinkWriting) <= 1
    /\ (outcome = "success" => received = emitted)

\* The sink was handed items in an order that differs from acceptance
\* order while another write was waiting in its buffer.
SinkGotReordered ==
    /\ Len(received) >= 2
    /\ received[1] > received[2]
    /\ wbuf # << >>


\* C11: item n+1 is handed to _transform only after item n has passed the
\* gate (its acquire() returned and its callback() was called); the
\* hand-over does not wait for item n's worker.
AdmissionSerialized ==
    /\ [](\A i, j \in Items :
            (j < i /\ pc[i] # "src") => pc[j] \in {"work", "buf", "out"})
    /\ [][\A i \in Items :
            (pc[i] = "src" /\ pc'[i] # "src") =>
                \A j \in Items : j < i => pc[j] \in {"work", "buf", "out"}]_vars

\* Item 1 holds a slot while the worker of item 0 is still outstanding.
AdmittedDuringEarlierWork == pc[0] = "work" /\ pc[1] \in {"acq", "work"}


\* C12: an item whose worker settles is pushed whatever earlier items are
\* still outstanding: it is emitted at once when the stage is flowing with
\* an empty buffer, and otherwise queued behind already settled items only,
\* so a slow earlier item never holds back its emission.
OutOfOrderTolerance ==
    /\ [][\A j \in Items :
            (pc[j] = "work" /\ pc'[j] # "work") =>
                IF flowing /\ rbuf = << >>
                THEN pc'[j] = "out" /\ emitted' = Append(emitted, j)
                ELSE pc'[j] = "buf" /\ rbuf' = Append(rbuf, j)]_vars
    /\ [](\A k \in 1 .. Len(rbuf) : pc[rbuf[k]] = "buf")

\* Item 1, accepted after item 0, has been emitted while the worker of
\* item 0 (the deferred one, id % 8 = 0) is still outstanding and a slot
\* is free.
LaterItemEmittedFirst ==
    /\ pc[0] = "work"
    /\ emitted # << >> /\ emitted[1] = 1
    /\ running < Capacity


\* Items that hold a gate slot and whose worker has not completed yet.
WorkerPending == { i \in Items : pc[i] \in {"acq", "work"} }
\* Items whose worker has completed and that wait in the stage's readable
\* buffer for their 'data' emission.
AwaitingEmission == { i \in Items : pc[i] = "buf" }

\* C13 (as stated): a slot is given back when the item's worker completes,
\* so every held slot belongs to an item whose worker is still pending,
\* however slow or blocked the sink is.
SlotFreedAtWorkerCompletion == running <= Cardinality(WorkerPending)

\* C13 (amended): a slot is held from acquire() until the item's 'data'
\* emission and not longer: items emitted but not yet written or
\* acknowledged by the sink hold none, items pushed into the paused
\* stage's buffer still hold theirs.
SlotHeldUntilEmission ==
    /\ running = Cardinality(WorkerPending \cup AwaitingEmission)
    /\ Range(rbuf) = AwaitingEmission

\* The sink's full buffer has paused the stage: every held slot belongs to
\* an item whose worker has completed, while emitted items still wait in
\* the sink without a slot.
SlotKeptWhilePaused ==
    /\ ~flowing /\ rbuf # << >> /\ wbuf # << >>
    /\ running = Len(rbuf)


\* C14: the number of items held inside the transform stage past the gate
\* (workers outstanding plus items pushed but not yet emitted) is at most
\* capacity, the stage's readableHighWaterMark, whatever the speeds of the
\* source and the sink.
BoundedMemory ==
    /\ Cardinality(WorkerPending \cup AwaitingEmission) <= Capacity
    /\ Len(rbuf) <= Capacity

\* The stage is full of completed items the paused sink has not taken,
\* and the source has a further item suspended at the gate.
StageFullOfBufferedItems ==
    /\ Len(rbuf) = Capacity
    /\ resolvers # << >>
    /\ ~flowing


\* C15: _final called while running > 0 stores the callback without
\* invoking it (Open -> Draining); the callback is then invoked at the
\* emission that brings running to 0 (Draining -> Closed); _final called
\* with running already 0, as over an empty source, invokes it at once
\* (Open -> Closed).
StageLifecycle ==
    [][ /\ (~onFinal /\ onFinal' /\ running > 0) => finalCalls' = 0
        /\ (~onFinal /\ onFinal' /\ running = 0) => finalCalls' = 1
        /\ (onFinal /\ finalCalls = 0 /\ finalCalls' >= 1) =>
               /\ running > 0 /\ running' = 0
               /\ Len(emitted') > Len(emitted)
               /\ Len(emitted') = srcNext
        /\ (onFinal /\ running > 0 /\ running' = 0) => finalCalls' >= 1
      ]_vars

\* Draining: the callback is stored and workers are still outstanding.
Draining == onFinal /\ finalCalls = 0 /\ running > 0


\* Items whose acquire() has returned, having incremented running.
Acquired == { i \in Items : pc[i] \in {"acq", "work", "buf", "out"} }

\* C16: running >= 0 in every reachable state of a pipeline run: each
\* release() of the 'data' listener is for a distinct item whose acquire()
\* had incremented running before, so releases never outnumber acquires.
ReleaseMatchesAcquire ==
    /\ running >= 0
    /\ NoDup(emitted)
    /\ Range(emitted) \subseteq Acquired
    /\ running + Len(emitted) = Cardinality(Acquired)

\* Releases have brought running back to 0 in the middle of a run.
AllSlotsReturned ==
    /\ running = 0 /\ Len(emitted) >= 2
    /\ ~ending /\ srcNext < MaxItems


\* C17: in a pipeline run at most one acquirer is ever suspended in the
\* gate, and no acquire() starts between a release() and the resumption of
\* the waiter it woke, so the freed slot is still there when it resumes.
SingleWaiter ==
    /\ [](Len(resolvers) + Len(woken) <= 1)
    /\ [](running + Len(woken) <= Capacity)
    /\ [][woken # << >> => srcNext' = srcNext]_vars

\* A release() has woken the suspended item, which has not resumed yet.
WokenNotResumed == woken # << >> /\ running = Capacity - 1


\* Items whose worker never settles.
Hung == { i \in Items : pc[i] = "hung" }

\* How far the run has come: every step of the run moves an item, the
\* source, the stage or the sink forward.
Rank(p) ==
    CASE p = "src" -> 0
      [] p = "gate" -> 1
      [] p = "acq" -> 3
      [] p = "work" -> 4
      [] p \in {"buf", "hung", "failed"} -> 5
      [] p = "out" -> 6

RECURSIVE SumRank(_)
SumRank(S) ==
    IF S = {} THEN 0
    ELSE LET i == CHOOSE x \in S : TRUE IN Rank(pc[i]) + SumRank(S \ {i})

Flag(b) == IF b THEN 1 ELSE 0

Progress ==
    SumRank(Items) + 2 * acked + finalCalls + Flag(ending) + Flag(onFinal)
    + Flag(sinkEnding) + Flag(outcome # "running") - Flag(resumeScheduled)

\* No handler is ready to run.
Quiescent == ~HandlerReady

\* C18: a hung worker keeps its slot, so the completion callback never
\* fires once a worker hangs.  When hung workers hold all the slots no
\* further item passes the gate.  When they hold fewer the run does not
\* stall: every step makes progress, and handlers stay ready until the
\* source has ended and every accepted item whose worker did not hang has
\* been emitted.
HungWorkerStall ==
    /\ [](Hung # {} => /\ finalCalls = 0 /\ outcome = "running"
                        /\ running >= Cardinality(Hung))
    /\ [][Cardinality(Hung) = Capacity =>
            \A i \in Items : pc[i] \in {"src", "gate"}
                                => pc'[i] \in {"src", "gate"}]_vars
    /\ [][Progress' > Progress]_vars
    /\ [](Quiescent =>
            \/ Cardinality(Hung) = Capacity
            \/ ending /\ \A i \in Items : pc[i] \in {"src", "hung", "out"})

\* Hung workers hold every slot and the next item is suspended at the gate.
AllSlotsHung == Cardinality(Hung) = Capacity /\ resolvers # << >>

====
